---- MODULE Spec2Model ----
(***************************************************************************)
(* Model of pkg/acpi/fbpt (FindAllFBPTRecords and its helpers) as found in *)
(* cmds/contrib/fbptcat/fbptcat.go.  The physical-memory device is a       *)
(* finite byte sequence; one behaviour is one scan of one memory image.    *)
(***************************************************************************)
EXTENDS Integers, Sequences, FiniteSets, TLC

\* ------------------------------------------------------------------------
\* Program constants
\* ------------------------------------------------------------------------
EFI_ACPI_5_0_FPDT_PERFORMANCE_RECORD_HEADER_SIZE == 4
EFI_ACPI_5_0_FBPT_HEADER_SIZE == 8
maxNumberOfFBPTPerfRecords == 2000
FPDT_DYNAMIC_STRING_EVENT_RECORD_IDENTIFIER == 4113
DynamicRecordFixedSize == 34
FBPTStructureSig == <<70, 66, 80, 84>>

\* ------------------------------------------------------------------------
\* Bounds of the model
\* ------------------------------------------------------------------------
MaxRecs == 2
PadLen == 600
BigExtra == 1
MaxSteps == 2600

\* ------------------------------------------------------------------------
\* Fixed-width unsigned arithmetic.  uint16 is a number below 2^16; uint32
\* is <<high 16 bits, low 16 bits>>; uint64 is four 16-bit groups, most
\* significant first.
\* ------------------------------------------------------------------------
W16 == 65536

U32(n) == <<n \div W16, n % W16>>

U32Sub(a, n) ==
    IF a[2] >= n THEN <<a[1], a[2] - n>>
    ELSE <<(a[1] + W16 - 1) % W16, a[2] + W16 - n>>

U32Add(a, n) ==
    IF a[2] + n < W16 THEN <<a[1], a[2] + n>>
    ELSE <<(a[1] + 1) % W16, a[2] + n - W16>>

U32Less(a, b) == a[1] < b[1] \/ (a[1] = b[1] /\ a[2] < b[2])

U8Sub(a, n) == (a + 256 - n) % 256

LittleEndianUint16(b) == b[1] + 256 * b[2]

LittleEndianUint32(b) == <<b[3] + 256 * b[4], b[1] + 256 * b[2]>>

LittleEndianUint64(b) ==
    <<b[7] + 256 * b[8], b[5] + 256 * b[6], b[3] + 256 * b[4], b[1] + 256 * b[2]>>

\* ------------------------------------------------------------------------
\* Errors and records
\* ------------------------------------------------------------------------
NoErr == [kind |-> "nil", got |-> <<>>]
EOF == [kind |-> "EOF", got |-> <<>>]
ErrUnexpectedEOF == [kind |-> "ErrUnexpectedEOF", got |-> <<>>]
ErrOpen == [kind |-> "OpenError", got |-> <<>>]
ErrSeek == [kind |-> "SeekError", got |-> <<>>]
\* Variant: the message names the expected signature, not the bytes read.
ErrSignatureExpected(sig) == [kind |-> "SignatureCheckFailed", got |-> FBPTStructureSig]

ErrSignature(sig) == [kind |-> "SignatureCheckFailed", got |-> sig]

NilRecords == <<>>

ZeroGuid == [i \in 1..16 |-> 0]

ZeroRecord ==
    [HookType |-> "", ProcessorIdentifier |-> <<0, 0>>,
     Timestamp |-> <<0, 0, 0, 0>>, GUID |-> ZeroGuid, Description |-> <<>>]

eventTypeMap(code) ==
    CASE code = 1 -> "MODULE_START_ID"
      [] code = 2 -> "MODULE_END_ID"
      [] code = 3 -> "MODULE_LOADIMAGE_START_ID"
      [] code = 4 -> "MODULE_LOADIMAGE_END_ID"
      [] code = 5 -> "MODULE_DB_START_ID"
      [] code = 6 -> "MODULE_DB_END_ID"
      [] code = 7 -> "MODULE_DB_SUPPORT_START_ID"
      [] code = 8 -> "MODULE_DB_SUPPORT_END_ID"
      [] code = 9 -> "MODULE_DB_STOP_START_ID"
      [] code = 10 -> "MODULE_DB_STOP_END_ID"
      [] code = 16 -> "PERF_EVENTSIGNAL_START_ID"
      [] code = 17 -> "PERF_EVENTSIGNAL_END_ID"
      [] code = 32 -> "PERF_CALLBACK_START_ID"
      [] code = 33 -> "PERF_CALLBACK_END_ID"
      [] code = 48 -> "PERF_FUNCTION_START_ID"
      [] code = 49 -> "PERF_FUNCTION_END_ID"
      [] code = 64 -> "PERF_INMODULE_START_ID"
      [] code = 65 -> "PERF_INMODULE_END_ID"
      [] code = 80 -> "PERF_CROSSMODULE_START_ID"
      [] code = 81 -> "PERF_CROSSMODULE_END_ID"
      [] OTHER -> ""

\* ------------------------------------------------------------------------
\* The byte source: io.ReadFull and Seek on a finite memory image
\* ------------------------------------------------------------------------
Avail(bytes, cur) == IF cur < Len(bytes) THEN Len(bytes) - cur ELSE 0

ReadFull(bytes, cur, n) ==
    IF n <= Avail(bytes, cur)
    THEN [buf |-> SubSeq(bytes, cur + 1, cur + n), cur |-> cur + n, err |-> NoErr]
    ELSE [buf |-> <<>>, cur |-> cur + Avail(bytes, cur),
          err |-> IF Avail(bytes, cur) = 0 THEN EOF ELSE ErrUnexpectedEOF]

Seek(cur, target) ==
    IF target < 0 THEN [cur |-> cur, err |-> ErrSeek]
    ELSE [cur |-> target, err |-> NoErr]

\* ------------------------------------------------------------------------
\* Memory images.  A table is written down as a list of records and laid
\* out byte for byte: signature, little-endian table length, then for every
\* record the 4-byte header followed by its body.
\* ------------------------------------------------------------------------
RECURSIVE LEBytes(_, _)
LEBytes(n, k) == IF k = 0 THEN <<>> ELSE <<n % 256>> \o LEBytes(n \div 256, k - 1)

Guid(seed) == [i \in 1..16 |-> (seed + 3 * i) % 256]

DynRec(length, hook, proc, ts, seed, desc) ==
    [type |-> FPDT_DYNAMIC_STRING_EVENT_RECORD_IDENTIFIER, length |-> length, rev |-> 1,
     hook |-> hook, proc |-> proc, ts |-> ts, guid |-> Guid(seed), desc |-> desc,
     payload |-> <<>>]

OtherRec(type, length, payload) ==
    [type |-> type, length |-> length, rev |-> 1,
     hook |-> 0, proc |-> 0, ts |-> 0, guid |-> ZeroGuid, desc |-> <<>>,
     payload |-> payload]

IsDyn(r) == r.type = FPDT_DYNAMIC_STRING_EVENT_RECORD_IDENTIFIER

EncodeRec(r) ==
    LEBytes(r.type, 2) \o <<r.length, r.rev>> \o
    (IF IsDyn(r)
     THEN LEBytes(r.hook, 2) \o LEBytes(r.proc, 4) \o LEBytes(r.ts, 8) \o r.guid \o r.desc
     ELSE r.payload)

\* What decoding EncodeRec(r) of a dynamic-string record has to give back.
MeasurementOf(r) ==
    [HookType |-> eventTypeMap(r.hook), ProcessorIdentifier |-> U32(r.proc),
     Timestamp |-> <<0, 0, r.ts \div W16, r.ts % W16>>, GUID |-> r.guid,
     Description |-> r.desc]

\* Templates 1-4 are well formed; 5 and 6 declare a length below the minimum.
Template(t) ==
    CASE t = 1 -> DynRec(36, 1, 1, 5, 7, <<97, 98>>)
      [] t = 2 -> DynRec(34, 255, 70000, 0, 9, <<>>)
      [] t = 3 -> OtherRec(4112, 4, <<>>)
      [] t = 4 -> OtherRec(2, 8, <<17, 16, 34, 1>>)
      [] t = 5 -> OtherRec(3, 0, <<>>)
      [] OTHER -> DynRec(10, 2, 3, 4, 5, <<>>)

TemplateIds == 1..6
WellFormedTemplates == 1..4

\* The records of the large tables carry a one-byte description.
BigLength == DynamicRecordFixedSize + 1
BigCount == maxNumberOfFBPTPerfRecords + BigExtra

\* Record k of the two large tables: big = 1 holds BigCount dynamic-string
\* records, big = 2 holds exactly the cap followed by BigExtra other records.
BigRec(big, k) ==
    IF big = 1 \/ k <= maxNumberOfFBPTPerfRecords
    THEN DynRec(BigLength, 1 + (k % 3), k, 2 * k, k % 256, <<k % 256>>)
    ELSE OtherRec(7, 4, <<>>)

RecsOf(image) ==
    IF image.big = 0 THEN [i \in 1..Len(image.recs) |-> Template(image.recs[i])]
    ELSE [k \in 1..BigCount |-> BigRec(image.big, k)]

RECURSIVE SumLengths(_, _)
SumLengths(recs, n) == IF n = 0 THEN 0 ELSE recs[n].length + SumLengths(recs, n - 1)

RECURSIVE Flatten(_, _)
Flatten(recs, n) == IF n = 0 THEN <<>> ELSE Flatten(recs, n - 1) \o EncodeRec(recs[n])

ExactLength(image) ==
    EFI_ACPI_5_0_FBPT_HEADER_SIZE +
    (IF image.big = 0 THEN SumLengths(RecsOf(image), Len(image.recs))
     ELSE IF image.big = 1 THEN BigCount * BigLength
     ELSE maxNumberOfFBPTPerfRecords * BigLength + BigExtra * 4)

DeclaredLength(image) ==
    CASE image.tl = "exact" -> ExactLength(image)
      [] image.tl = "under" -> ExactLength(image) - 2
      [] image.tl = "over" -> ExactLength(image) + 4
      [] image.tl = "hdr" -> 8
      [] OTHER -> 0

BigBody1 ==
    [a \in 1..(BigCount * BigLength) |->
        EncodeRec(BigRec(1, (a - 1) \div BigLength + 1))[((a - 1) % BigLength) + 1]]

BigBody2 ==
    [a \in 1..(maxNumberOfFBPTPerfRecords * BigLength + 4 * BigExtra) |->
        IF a <= maxNumberOfFBPTPerfRecords * BigLength
        THEN EncodeRec(BigRec(2, (a - 1) \div BigLength + 1))[((a - 1) % BigLength) + 1]
        ELSE EncodeRec(OtherRec(7, 4, <<>>))[((a - 1 - maxNumberOfFBPTPerfRecords * BigLength) % 4) + 1]]

BigBytes1 == FBPTStructureSig \o LEBytes(BigCount * BigLength + 8, 4) \o BigBody1
BigBytes2 ==
    FBPTStructureSig \o LEBytes(maxNumberOfFBPTPerfRecords * BigLength + BigExtra * 4 + 8, 4)
    \o BigBody2

Cut(bytes, n) == SubSeq(bytes, 1, IF Len(bytes) > n THEN Len(bytes) - n ELSE 0)

\* The contents of /dev/mem from address 0 for a given table.
ImageBytes(image) ==
    IF image.big = 1 THEN BigBytes1
    ELSE IF image.big = 2 THEN BigBytes2
    ELSE LET table == [i \in 1..image.base |-> 204]
                      \o (IF image.sig THEN FBPTStructureSig ELSE <<88, 88, 88, 88>>)
                      \o LEBytes(DeclaredLength(image), 4)
                      \o Flatten(RecsOf(image), Len(image.recs))
         IN CASE image.mem = "pad" -> table \o [i \in 1..PadLen |-> 0]
              [] image.mem = "end" -> table
              [] image.mem = "cut1" -> Cut(table, 1)
              [] image.mem = "cut3" -> Cut(table, 3)
              [] OTHER -> Cut(table, 20)

Lists == UNION {[1..n -> TemplateIds] : n \in 0..MaxRecs}
GoodLists == UNION {[1..n -> WellFormedTemplates] : n \in 0..MaxRecs}

Image(recs, big, tl, mem, sig, base, openOK) ==
    [recs |-> recs, big |-> big, tl |-> tl, mem |-> mem, sig |-> sig,
     base |-> base, openOK |-> openOK]

\* Every list of records with the table length they add up to; the lists of
\* well-formed records also with a wrong table length and with the memory
\* ending at or before the end of the table; a few tables with a wrong
\* signature, an address Seek refuses, a device that cannot be opened.
Images ==
    {Image(l, 0, "exact", "pad", TRUE, 3, TRUE) : l \in Lists}
    \cup {Image(l, 0, tl, "pad", TRUE, 3, TRUE) :
            l \in GoodLists, tl \in {"over", "hdr", "zero"}}
    \cup {Image(l, 0, "under", "pad", TRUE, 3, TRUE) : l \in GoodLists \ {<<>>}}
    \cup {Image(l, 0, "exact", m, TRUE, 3, TRUE) :
            l \in GoodLists, m \in {"end", "cut1", "cut3", "cut20"}}
    \cup {Image(l, 0, "exact", "pad", FALSE, 3, TRUE) : l \in {<<>>, <<1>>, <<3, 1>>}}
    \cup {Image(<<1>>, 0, "exact", "pad", TRUE, -1, TRUE),
          Image(<<1>>, 0, "exact", "pad", TRUE, 3, FALSE)}

BigImage1 == Image(<<>>, 1, "exact", "end", TRUE, 0, TRUE)
BigImage2 == Image(<<>>, 2, "exact", "end", TRUE, 0, TRUE)

\* A table as the format intends it: right signature, every record at least
\* its minimum length, lengths adding up to the declared table length, the
\* whole table present in memory, and no more dynamic-string records than
\* the cap.
WellFormed(image) ==
    /\ image.sig /\ image.openOK /\ image.base >= 0
    /\ image.tl = "exact"
    /\ image.mem \in {"pad", "end"}
    /\ image.big # 1
    /\ \A i \in 1..Len(image.recs) : image.recs[i] \in WellFormedTemplates

\* ------------------------------------------------------------------------
\* Decoders
\* ------------------------------------------------------------------------
\* Sequencing: the value of e is computed once and handed to F, as a
\* statement hands its result to the statements after it.
Bind(e, F(_)) == CHOOSE r \in {F(x) : x \in {e}} : TRUE

verifyFBPTSignature(bytes, cur, fbptAddr) ==
    Bind(Seek(cur, fbptAddr), LAMBDA sk :
      IF sk.err # NoErr THEN [length |-> <<0, 0>>, cur |-> sk.cur, err |-> sk.err]
      ELSE Bind(ReadFull(bytes, sk.cur, 4), LAMBDA sig :
        IF sig.err # NoErr THEN [length |-> <<0, 0>>, cur |-> sig.cur, err |-> sig.err]
        ELSE IF sig.buf # FBPTStructureSig
        THEN [length |-> <<0, 0>>, cur |-> sig.cur, err |-> ErrSignature(sig.buf)]
        ELSE Bind(ReadFull(bytes, sig.cur, 4), LAMBDA len :
          IF len.err # NoErr THEN [length |-> <<0, 0>>, cur |-> len.cur, err |-> len.err]
          ELSE [length |-> LittleEndianUint32(len.buf), cur |-> len.cur, err |-> NoErr])))

HeaderError(r) == [Type |-> 0, Length |-> 0, Revision |-> 0, cur |-> r.cur, err |-> r.err]

ReadFPDTRecordHeader(bytes, cur) ==
    Bind(ReadFull(bytes, cur, 2), LAMBDA t :
      IF t.err # NoErr THEN HeaderError(t)
      ELSE Bind(ReadFull(bytes, t.cur, 1), LAMBDA l :
        IF l.err # NoErr THEN HeaderError(l)
        ELSE Bind(ReadFull(bytes, l.cur, 1), LAMBDA r :
          IF r.err # NoErr THEN HeaderError(r)
          ELSE [Type |-> LittleEndianUint16(t.buf), Length |-> l.buf[1],
                Revision |-> r.buf[1], cur |-> r.cur, err |-> NoErr])))

DescriptionLength(recordLength) == U8Sub(recordLength, DynamicRecordFixedSize)

\* Variant: the skip distance counts the header a second time.
SkipDistanceWhole(length) == length

\* Variant: the skip distance is computed in signed arithmetic.
SkipDistanceSigned(length) == length - EFI_ACPI_5_0_FPDT_PERFORMANCE_RECORD_HEADER_SIZE

SkipDistance(length) == U8Sub(length, EFI_ACPI_5_0_FPDT_PERFORMANCE_RECORD_HEADER_SIZE)

RecordError(r) == [rec |-> ZeroRecord, cur |-> r.cur, err |-> r.err]

readFirmwarePerformanceDataTableDynamicRecord(bytes, cur, recordLength) ==
    Bind(ReadFull(bytes, cur, 2), LAMBDA hook :
      IF hook.err # NoErr THEN RecordError(hook)
      ELSE Bind(ReadFull(bytes, hook.cur, 4), LAMBDA proc :
        IF proc.err # NoErr THEN RecordError(proc)
        ELSE Bind(ReadFull(bytes, proc.cur, 8), LAMBDA ts :
          IF ts.err # NoErr THEN RecordError(ts)
          ELSE Bind(ReadFull(bytes, ts.cur, 16), LAMBDA guid :
            IF guid.err # NoErr THEN RecordError(guid)
            ELSE Bind(ReadFull(bytes, guid.cur, DescriptionLength(recordLength)), LAMBDA str :
              IF str.err # NoErr THEN RecordError(str)
              ELSE [rec |-> [HookType |-> eventTypeMap(LittleEndianUint16(hook.buf)),
                             ProcessorIdentifier |-> LittleEndianUint32(proc.buf),
                             Timestamp |-> LittleEndianUint64(ts.buf),
                             GUID |-> guid.buf,
                             Description |-> str.buf],
                    cur |-> str.cur, err |-> NoErr])))))

\* ------------------------------------------------------------------------
\* FindAllFBPTRecords as a state machine
\* ------------------------------------------------------------------------
VARIABLES image, pc, fOpen, cursor, tablelength, measurementRecords, index,
          tableBytesRead, HeaderInfo, ret

vars == <<image, pc, fOpen, cursor, tablelength, measurementRecords, index,
          tableBytesRead, HeaderInfo, ret>>

\* Variant: the result slice is cut down to the decoded records.
ReturnTrimmed(count, records, err) ==
    [count |-> count,
     records |-> IF Len(records) >= count THEN SubSeq(records, 1, count) ELSE records,
     err |-> err]

Return(count, records, err) == [count |-> count, records |-> records, err |-> err]

\* Variant: the error return hands back the slice.
ErrorReturnKeep(count, records, err) == Return(count, records, err)

ErrorReturn(count, records, err) == Return(count, NilRecords, err)

MakeRecords == [i \in 1..maxNumberOfFBPTPerfRecords |-> ZeroRecord]

\* Variant: the loop is bounded by the table length only.
LoopCondNoCap(read, length, idx) ==
    U32Less(read, U32Sub(length, EFI_ACPI_5_0_FBPT_HEADER_SIZE))

LoopCond(read, length, idx) ==
    /\ U32Less(read, U32Sub(length, EFI_ACPI_5_0_FBPT_HEADER_SIZE))
    /\ idx < maxNumberOfFBPTPerfRecords

\* The locals of one call, gathered in a record
Frame ==
    [pc |-> pc, fOpen |-> fOpen, cursor |-> cursor, tablelength |-> tablelength,
     measurementRecords |-> measurementRecords, index |-> index,
     tableBytesRead |-> tableBytesRead, HeaderInfo |-> HeaderInfo, ret |-> ret]

Apply(f) ==
    /\ pc' = f.pc
    /\ fOpen' = f.fOpen
    /\ cursor' = f.cursor
    /\ tablelength' = f.tablelength
    /\ measurementRecords' = f.measurementRecords
    /\ index' = f.index
    /\ tableBytesRead' = f.tableBytesRead
    /\ HeaderInfo' = f.HeaderInfo
    /\ ret' = f.ret
    /\ image' = image

\* return: the deferred f.Close() runs
Returned(f, r) == [f EXCEPT !.pc = "done", !.fOpen = FALSE, !.ret = r]

\* os.OpenFile(memDevice)
OpenFileStep(im, f) ==
    IF im.openOK
    THEN [f EXCEPT !.pc = "verify", !.fOpen = TRUE]
    ELSE [f EXCEPT !.pc = "done", !.ret = Return(0, NilRecords, ErrOpen)]

\* verifyFBPTSignature and the allocation of the result slice
VerifyStep(im, f) ==
    Bind(verifyFBPTSignature(ImageBytes(im), f.cursor, im.base), LAMBDA v :
      IF v.err # NoErr
      THEN Returned([f EXCEPT !.cursor = v.cur], Return(0, NilRecords, v.err))
      ELSE [f EXCEPT !.cursor = v.cur, !.tablelength = v.length,
                     !.measurementRecords = MakeRecords, !.pc = "loop"])

\* The dynamic-string branch.  Writing measurementRecords[index] with the
\* index outside the slice is a run-time panic.
DynamicBranch(bytes, f, h) ==
    Bind(readFirmwarePerformanceDataTableDynamicRecord(bytes, h.cur, h.Length), LAMBDA d :
      IF f.index >= Len(f.measurementRecords)
      THEN [f EXCEPT !.cursor = d.cur, !.pc = "panic", !.fOpen = FALSE]
      ELSE IF d.err # NoErr
      THEN Returned([f EXCEPT !.cursor = d.cur, !.measurementRecords[f.index + 1] = d.rec],
                    ErrorReturn(f.index, f.measurementRecords, d.err))
      ELSE [f EXCEPT !.cursor = d.cur,
                     !.measurementRecords[f.index + 1] = d.rec,
                     !.index = f.index + 1,
                     !.tableBytesRead = U32Add(f.tableBytesRead, h.Length)])

\* The branch of every other record type: skip the rest of the record
SkipBranch(f, h) ==
    Bind(Seek(h.cur, h.cur + SkipDistance(h.Length)), LAMBDA sk :
      IF sk.err # NoErr
      THEN Returned([f EXCEPT !.cursor = sk.cur],
                    ErrorReturn(f.index, f.measurementRecords, sk.err))
      ELSE [f EXCEPT !.cursor = sk.cur,
                     !.tableBytesRead = U32Add(f.tableBytesRead, h.Length)])

\* One iteration of the scan loop
LoopIterStep(im, f) ==
    Bind(ImageBytes(im), LAMBDA bytes :
      Bind(ReadFPDTRecordHeader(bytes, f.cursor), LAMBDA h :
        Bind([f EXCEPT !.HeaderInfo = [Type |-> h.Type, Length |-> h.Length]], LAMBDA g :
          IF h.err # NoErr
          THEN Returned([g EXCEPT !.cursor = h.cur],
                        ErrorReturn(f.index, f.measurementRecords, h.err))
          ELSE IF h.Type = FPDT_DYNAMIC_STRING_EVENT_RECORD_IDENTIFIER
          THEN DynamicBranch(bytes, g, h)
          ELSE SkipBranch(g, h))))

\* The loop condition fails: return index, measurementRecords, nil
LoopExitStep(f) == Returned(f, Return(f.index, f.measurementRecords, NoErr))

AllImages == Images \cup {BigImage1, BigImage2}

Init ==
    /\ image \in AllImages
    /\ pc = "open"
    /\ fOpen = FALSE
    /\ cursor = 0
    /\ tablelength = <<0, 0>>
    /\ measurementRecords = NilRecords
    /\ index = 0
    /\ tableBytesRead = <<0, 0>>
    /\ HeaderInfo = [Type |-> 0, Length |-> 0]
    /\ ret = Return(0, NilRecords, NoErr)

\* The scan followed statement by statement; the second of the two large
\* tables is left to the call-level specification.
StepInit == Init /\ image # BigImage2

OpenFile ==
    /\ pc = "open"
    /\ \E g \in {OpenFileStep(image, Frame)} : Apply(g)

Verify ==
    /\ pc = "verify"
    /\ \E g \in {VerifyStep(image, Frame)} : Apply(g)

LoopIter ==
    /\ pc = "loop"
    /\ LoopCond(tableBytesRead, tablelength, index)
    /\ \E g \in {LoopIterStep(image, Frame)} : Apply(g)

LoopExit ==
    /\ pc = "loop"
    /\ ~LoopCond(tableBytesRead, tablelength, index)
    /\ \E g \in {LoopExitStep(Frame)} : Apply(g)

Next == OpenFile \/ Verify \/ LoopIter \/ LoopExit

Spec == StepInit /\ [][Next]_vars

\* The loop runs to its end: nothing but the device blocks it.
FairSpec == Spec /\ WF_vars(Next)

\* One statement of the call, whichever is next
CallStep(im, f) ==
    CASE f.pc = "open" -> OpenFileStep(im, f)
      [] f.pc = "verify" -> VerifyStep(im, f)
      [] f.pc = "loop" ->
            IF LoopCond(f.tableBytesRead, f.tablelength, f.index)
            THEN LoopIterStep(im, f) ELSE LoopExitStep(f)
      [] OTHER -> f

\* n statements, or as many as the call has
RECURSIVE RunSteps(_, _, _)
RunSteps(im, f, n) ==
    IF n = 0 \/ f.pc \in {"done", "panic"} THEN f
    ELSE IF n = 1 THEN CallStep(im, f)
    ELSE RunSteps(im, RunSteps(im, f, n \div 2), n - (n \div 2))

\* One whole call of FindAllFBPTRecords
FindAllFBPTRecords ==
    /\ pc = "open"
    /\ \E g \in {RunSteps(image, Frame, MaxSteps)} : Apply(g)

CallSpec == Init /\ [][FindAllFBPTRecords]_vars

\* ------------------------------------------------------------------------
\* Properties
\* ------------------------------------------------------------------------
Done == pc = "done"

\* verifyFBPTSignature succeeded and the result slice exists
Scanning == Len(measurementRecords) > 0

LoopError == Done /\ Scanning /\ ret.err # NoErr

U32Value(a) == a[1] * W16 + a[2]

MinLength(type) ==
    IF type = FPDT_DYNAMIC_STRING_EVENT_RECORD_IDENTIFIER
    THEN DynamicRecordFixedSize
    ELSE EFI_ACPI_5_0_FPDT_PERFORMANCE_RECORD_HEADER_SIZE

RECURSIVE SelectDyn(_, _)
SelectDyn(recs, n) ==
    IF n = 0 THEN <<>>
    ELSE IF IsDyn(recs[n]) THEN Append(SelectDyn(recs, n - 1), MeasurementOf(recs[n]))
    ELSE SelectDyn(recs, n - 1)

\* The dynamic-string records of the table, in table order
Expected(im) ==
    IF im.big = 0 THEN SelectDyn(RecsOf(im), Len(im.recs))
    ELSE [k \in 1..maxNumberOfFBPTPerfRecords |-> MeasurementOf(BigRec(im.big, k))]

\* Number of dynamic-string records that lie whole inside the memory image
CompleteDyn(im) ==
    Cardinality({i \in 1..Len(im.recs) :
        /\ IsDyn(Template(im.recs[i]))
        /\ im.base + EFI_ACPI_5_0_FBPT_HEADER_SIZE + SumLengths(RecsOf(im), i)
              <= Len(ImageBytes(im))})

Truncated(im) ==
    /\ im.big = 0 /\ im.sig /\ im.openOK /\ im.base >= 0 /\ im.tl = "exact"
    /\ im.mem \in {"cut1", "cut3", "cut20"}
    /\ \A i \in 1..Len(im.recs) : im.recs[i] \in WellFormedTemplates

C2_ShortTableNoIterations ==
    (Scanning /\ U32Value(tablelength) <= EFI_ACPI_5_0_FBPT_HEADER_SIZE) =>
        /\ cursor = image.base + EFI_ACPI_5_0_FBPT_HEADER_SIZE
        /\ index = 0
        /\ Done => (ret.count = 0 /\ ret.err = NoErr)

\* C3 as stated: a record header whose length is below the minimum of its
\* type ends the scan with a structural error before any skip or
\* description read.
C3_UndersizedRecordRejected ==
    [][LET h == ReadFPDTRecordHeader(ImageBytes(image), cursor)
       IN (/\ pc = "loop"
           /\ LoopCond(tableBytesRead, tablelength, index)
           /\ h.err = NoErr
           /\ h.Length < MinLength(h.Type))
          => (/\ pc' = "done"
              /\ ret'.err.kind = "StructuralError"
              /\ cursor' = h.cur)]_vars

\* C4: a well-formed table with N dynamic-string records among records of
\* other types yields exactly those N records, in table order, and no error.
C4_WellFormedScan ==
    (Done /\ WellFormed(image)) =>
        /\ ret.err = NoErr
        /\ ret.count = Len(Expected(image))
        /\ Len(ret.records) >= ret.count
        /\ SubSeq(ret.records, 1, ret.count) = Expected(image)

C4_Witness ==
    /\ Done /\ WellFormed(image) /\ image.big = 0 /\ Len(image.recs) >= 2
    /\ ~IsDyn(Template(image.recs[1])) /\ IsDyn(Template(image.recs[2]))
    /\ ret.count >= 1

\* C5 as stated: the bytes consumed across records never exceed the
\* declared table length less the 8-byte table header.
C5_ConsumedWithinTable ==
    (Scanning /\ U32Value(tablelength) >= EFI_ACPI_5_0_FBPT_HEADER_SIZE) =>
        U32Value(tableBytesRead) <= U32Value(tablelength) - EFI_ACPI_5_0_FBPT_HEADER_SIZE

\* C6: the record count never exceeds 2000, no entry is written outside the
\* 2000 entries of the result (the write would panic), and a table of more
\* than 2000 dynamic-string records returns 2000 and no error.
C6_Cap ==
    /\ index <= maxNumberOfFBPTPerfRecords
    /\ ret.count <= maxNumberOfFBPTPerfRecords
    /\ pc # "panic"
    /\ (pc = "done" /\ image.big = 1) =>
          /\ ret.count = maxNumberOfFBPTPerfRecords
          /\ ret.err = NoErr
          /\ ret.records[maxNumberOfFBPTPerfRecords]
               = MeasurementOf(BigRec(1, maxNumberOfFBPTPerfRecords))
          /\ cursor = EFI_ACPI_5_0_FBPT_HEADER_SIZE + maxNumberOfFBPTPerfRecords * BigLength

C6_Witness ==
    /\ pc = "done" /\ image.big = 1 /\ ret.count = maxNumberOfFBPTPerfRecords
    /\ U32Less(tableBytesRead, U32Sub(tablelength, EFI_ACPI_5_0_FBPT_HEADER_SIZE))

\* C7: every scan ends, whatever the memory holds; leaving the loop because
\* a bound is reached returns no error.
C7_Terminates ==
    /\ <>Done
    /\ [][(pc = "loop" /\ ~LoopCond(tableBytesRead, tablelength, index))
            => (pc' = "done" /\ ret'.err = NoErr)]_vars

\* A scan over zero-length records: nothing consumed, cursor far past the
\* table, ended by the end of the memory image.
C7_Witness ==
    /\ Done /\ Scanning /\ tableBytesRead = <<0, 0>>
    /\ cursor > image.base + EFI_ACPI_5_0_FBPT_HEADER_SIZE + 256

\* C8 as stated: at the start of every iteration the cursor stands at
\* base address + 8 + bytes consumed.
C8_CursorTracksConsumed ==
    pc = "loop" =>
        cursor = image.base + EFI_ACPI_5_0_FBPT_HEADER_SIZE + U32Value(tableBytesRead)

SigAt(im) == SubSeq(ImageBytes(im), im.base + 1, im.base + 4)

\* The state verifyFBPTSignature leaves behind when the signature and
\* length can be read
C9_Post ==
    IF SigAt(image) # FBPTStructureSig
    THEN /\ Done
         /\ ret = Return(0, NilRecords, [kind |-> "SignatureCheckFailed", got |-> SigAt(image)])
         /\ cursor = image.base + 4
         /\ ~Scanning
    ELSE /\ pc = "loop"
         /\ tablelength = U32(DeclaredLength(image))
         /\ cursor = image.base + EFI_ACPI_5_0_FBPT_HEADER_SIZE

\* C9: a wrong signature fails with the observed bytes, no records and the
\* cursor 4 bytes on; a right one gives the little-endian length and leaves
\* the cursor 8 bytes on.
C9_SignatureCheck ==
    [][(/\ pc = "verify"
        /\ image.base >= 0
        /\ Len(ImageBytes(image)) >= image.base + EFI_ACPI_5_0_FBPT_HEADER_SIZE)
       => C9_Post']_vars

C9_Witness ==
    /\ Done /\ ret.err.kind = "SignatureCheckFailed"
    /\ ret.err.got = <<88, 88, 88, 88>> /\ cursor = image.base + 4

\* C10: a successful return carries 2000 entries: the decoded records in
\* table order in front, zero-valued records from index count on.
C10_ResultShape ==
    (Done /\ ret.err = NoErr) =>
        /\ Len(ret.records) = maxNumberOfFBPTPerfRecords
        /\ ret.count = index
        /\ ret.records = measurementRecords
        /\ \A i \in (ret.count + 1)..maxNumberOfFBPTPerfRecords :
              ret.records[i] = ZeroRecord
        /\ WellFormed(image) =>
              \A i \in 1..ret.count : ret.records[i] = Expected(image)[i]

C10_Witness ==
    /\ Done /\ ret.err = NoErr /\ WellFormed(image)
    /\ ret.count >= 1 /\ ret.count < maxNumberOfFBPTPerfRecords

====
